---------------------------- MODULE Spec2Model ----------------------------
(***************************************************************************)
(* A model of the LittleVGL websocket driver                               *)
(* (components/lvgl_esp32_drivers/websocket_driver.c) and of the render    *)
(* thread of main/main.c that drives it.                                   *)
(*                                                                         *)
(* Four tasks run concurrently:                                            *)
(*   main      app_main: websocket_driver_init, then the rendering engine  *)
(*             calling websocket_driver_flush and websocket_driver_read    *)
(*   acceptor  server_task: accept, push on client_queue                   *)
(*   handler   server_handle_task: pop from client_queue, http_serve       *)
(*   network   the websocket server's context, which delivers the          *)
(*             callbacks of open clients (websocket_callback)              *)
(*                                                                         *)
(* The websocket server itself (clients[], xwebsocket_mutex,               *)
(* ws_server_add_client, ws_header_t) is a component whose source is not   *)
(* part of the modelled files; what the driver needs of it is modelled     *)
(* from the design description.                                            *)
(***************************************************************************)
EXTENDS Integers, Sequences, FiniteSets, TLC

\* ------------------------------------------------------------------------
\* Program constants
\* ------------------------------------------------------------------------

\* websocket_driver.c:33
PIXEL_BUF_HEADER_LEN == 13

\* websocket_driver.c:34
WS_BUF_HEADER_MAX_LEN == 10

\* websocket_driver.c:35
STATIC_BUF_EXTRA_LEN == PIXEL_BUF_HEADER_LEN + WS_BUF_HEADER_MAX_LEN

\* websocket_driver.c:60
client_queue_size == 5

\* Opcode of a binary frame (RFC 6455), the value of WEBSOCKET_OPCODE_BIN.
WEBSOCKET_OPCODE_BIN == 2

\* ------------------------------------------------------------------------
\* Configuration the model fixes, and the bounds of the environment
\* ------------------------------------------------------------------------

\* Horizontal and vertical resolution of the display (lv_conf.h): wide
\* enough for a full draw buffer of 32-bit pixels to need the 10-byte
\* frame header.
LV_HOR_RES_MAX == 800

LV_VER_RES_MAX == 480

\* Number of slots of the connection registry.
WEBSOCKET_SERVER_MAX_CLIENTS == 2

\* Number of connections the network offers to the listening socket.
MaxConns == 3

\* The same where the caller of flush may pass any region: as many
\* connections as the registry has slots.
MaxApiConns == 2

\* The same where only the hand-off through client_queue is followed.
MaxQueueConns == 6

\* Payload lengths set_msg_buf is applied to: 0 .. MaxSmallLen, and
\* HeaderSpan to either side of 65536.
MaxSmallLen == 130

HeaderSpan == 4

\* websocket_driver.h:29
DISP_BUF_SIZE == LV_HOR_RES_MAX * 30

\* The colour depths LVGL can be built with that the driver distinguishes
\* (websocket_driver.c:95-101).
ColorDepths == {8, 16, 32}

\* sizeof(lv_color_t) for a build with colour depth d.
sizeof_lv_color_t(d) == IF d = 32 THEN 4 ELSE IF d = 16 THEN 2 ELSE 1

\* A buffer declared without the room for the two headers.
msg_buf_len_no_extra(d) == DISP_BUF_SIZE * sizeof_lv_color_t(d)

\* Number of elements of msg_buf (websocket_driver.c:63).
msg_buf_len(d) == DISP_BUF_SIZE * sizeof_lv_color_t(d) + STATIC_BUF_EXTRA_LEN

Slots == 0 .. (WEBSOCKET_SERVER_MAX_CLIENTS - 1)

\* ------------------------------------------------------------------------
\* Frame header: set_msg_buf
\* ------------------------------------------------------------------------

\* The two parameter bytes of ws_header_t: ZERO holds FIN and OPCODE, ONE
\* holds MASK and LEN.
ws_header_pos(FIN, OPCODE, MASK, LEN) ==
    [ZERO |-> FIN * 128 + OPCODE, ONE |-> MASK * 128 + LEN]

\* The header for a payload of msg_len bytes whose LEN field is LEN: the
\* bytes written to msg_buf[0 .. pos-1] and pos, the index of the first
\* payload byte (websocket_driver.c:390-409).
msg_buf_header(msg_len, LEN) ==
    LET pos == IF LEN = 126 THEN 2 + 2 ELSE IF LEN = 127 THEN 2 + 8 ELSE 2
        h   == ws_header_pos(1, WEBSOCKET_OPCODE_BIN, 0, LEN)
        ext == IF LEN = 126
               THEN << (msg_len \div 256) % 256, msg_len % 256 >>
               ELSE IF LEN = 127
               THEN << 0, 0, 0, 0,
                       (msg_len \div 16777216) % 256,
                       (msg_len \div 65536) % 256,
                       (msg_len \div 256) % 256,
                       msg_len % 256 >>
               ELSE << >>
    IN  [pos |-> pos, bytes |-> << h.ZERO, h.ONE >> \o ext]

\* set_msg_buf with the two-byte bracket taken one too far (<= 65536).
set_msg_buf_off_by_one(msg_len) ==
    msg_buf_header(msg_len,
                   IF msg_len <= 125 THEN msg_len
                   ELSE IF msg_len <= 65536 THEN 126 ELSE 127)

\* set_msg_buf(msg_len) (websocket_driver.c:364-410).
set_msg_buf(msg_len) ==
    msg_buf_header(msg_len,
                   IF msg_len <= 125 THEN msg_len
                   ELSE IF msg_len < 65536 THEN 126 ELSE 127)

\* ------------------------------------------------------------------------
\* Regions and the pixel message
\* ------------------------------------------------------------------------

lv_area_get_width(a) == a.x2 - a.x1 + 1

lv_area_get_height(a) == a.y2 - a.y1 + 1

Area(x1, y1, x2, y2) == [x1 |-> x1, y1 |-> y1, x2 |-> x2, y2 |-> y2]

\* Regions the rendering engine flushes: never more pixels than the draw
\* buffer it was given holds (main.c:64, DISP_BUF_SIZE pixels).
LvglAreas ==
    { Area(0, 0, 0, 0),
      Area(10, 300, 14, 304),
      Area(0, 0, LV_HOR_RES_MAX - 1, 29) }

\* Regions of more pixels than the draw buffer: what a caller other than
\* the engine as configured could pass.
OversizeAreas ==
    { Area(0, 0, LV_HOR_RES_MAX - 1, 30) }

\* The 13 bytes websocket_driver_flush writes in front of the pixels.
pixel_buf_header(depth, w, h, a) ==
    << depth % 256,
       (w \div 256) % 256, w % 256,
       (h \div 256) % 256, h % 256,
       (a.x1 \div 256) % 256, a.x1 % 256,
       (a.y1 \div 256) % 256, a.y1 % 256,
       (a.x2 \div 256) % 256, a.x2 % 256,
       (a.y2 \div 256) % 256, a.y2 % 256 >>

\* A pixel loop that writes one byte per pixel whatever the depth.
loop_one_byte_per_pixel(depth) == 1

\* Bytes one pixel takes in the branch of the pixel loop that pixel_depth
\* selects (websocket_driver.c:153-175).
loop_bytes_per_pixel(depth) ==
    IF depth = 32 THEN 4 ELSE IF depth = 16 THEN 2 ELSE 1

\* ------------------------------------------------------------------------
\* Inbound messages and the pointer
\* ------------------------------------------------------------------------

\* The uint64_t len of the callback, as four 16-bit words, most significant
\* first.
Len64(w3, w2, w1, w0) == << w3, w2, w1, w0 >>

\* (uint32_t) len: the two low words.
uint32_of(len) == << len[3], len[4] >>

\* The lengths the network delivers: 0, 4, 5, 6, 2^32 and 2^32 + 5.
Lens ==
    { Len64(0, 0, 0, 0), Len64(0, 0, 0, 4), Len64(0, 0, 0, 5),
      Len64(0, 0, 0, 6), Len64(0, 1, 0, 0), Len64(0, 1, 0, 5) }

\* The five bytes of the binary messages clients send: a press, a release
\* and a press whose x has its top bit set.
Msgs == { << 1, 0, 10, 0, 20 >>, << 0, 0, 30, 0, 40 >>, << 1, 128, 0, 0, 5 >> }

\* (uint32_t) len == 5 (websocket_driver.c:230).
bin_len_ok(len) == uint32_of(len) = << 0, 5 >>

\* (int16_t) of a uint16_t value (websocket_driver.c:188-189).
int16_of(u) == IF u >= 32768 THEN u - 65536 ELSE u

\* What websocket_driver_read stores in data for a pointer value
\* (websocket_driver.c:188-190).
indev_data(flag, x, y) ==
    [x |-> int16_of(x), y |-> int16_of(y),
     state |-> IF flag = 0 THEN "REL" ELSE "PR"]

\* The pointer value a five-byte message sets (websocket_driver.c:232-234).
msg_flag(m) == m[1]

msg_x(m) == m[2] * 256 + m[3]

msg_y(m) == m[4] * 256 + m[5]

\* ------------------------------------------------------------------------
\* The connection registry and the connected flag
\* ------------------------------------------------------------------------

OpenSlots(cl) == { i \in Slots : cl[i] }

\* num_connected_clients() (websocket_driver.c:442-451).
num_connected_clients(cl) == Cardinality(OpenSlots(cl))

\* websocket_connected after websocket_callback(num, type, ...) ran with
\* the registry cl (websocket_driver.c:204-228).
websocket_callback_connected(type, cl, connected) ==
    CASE type = "CONNECT" -> TRUE
      [] type \in { "DISCONNECT_EXTERNAL", "DISCONNECT_INTERNAL",
                    "DISCONNECT_ERROR" } ->
            IF num_connected_clients(cl) = 0 THEN FALSE ELSE connected
      [] OTHER -> connected

\* ------------------------------------------------------------------------
\* State
\* ------------------------------------------------------------------------

VARIABLES
    sys,                  \* "run", or why the board went down
    color_depth,          \* LV_COLOR_DEPTH of the build
    m_pc,                 \* main task: position in init / flush / read
    pixel_depth,
    pointer,              \* [mutex, flag, x, y]
    websocket_connected,
    client_queue,         \* [created, q]
    msg_buf,              \* [hdr, msg, npx, top]
    clients,              \* slot -> connected
    xwebsocket_mutex,     \* "free" or the task holding it
    a_pc, newconn,        \* acceptor task
    listening,            \* the acceptor's listening socket is open
    offered,              \* connections the network has offered so far
    h_pc, conn,           \* handler task
    n_pc, n_msg, n_len,   \* network context: callback in progress
    data,                 \* what the last websocket_driver_read returned
    fl,                   \* the flush call in progress: locals and record
    last_msg,             \* the last message the callback accepted
    served,               \* connections in the order the handler took them
    hs,                   \* the http_serve call in progress: what it did
    lv,                   \* the rendering engine: [pc, inv, late]
    arg, res              \* argument and result of a function applied alone

vars ==
    << sys, color_depth, m_pc, pixel_depth, pointer, websocket_connected,
       client_queue, msg_buf, clients, xwebsocket_mutex, a_pc, newconn,
       listening, offered, h_pc, conn, n_pc, n_msg, n_len, data, fl, last_msg, served,
       hs, lv, arg, res >>

NoData == [x |-> 0, y |-> 0, state |-> "none"]

NoFlush ==
    [area |-> Area(0, 0, 0, 0), len |-> 0, i |-> 0, entry_open |-> {},
     connected |-> FALSE, touched |-> FALSE, over |-> FALSE,
     lock_open |-> {}, attempted |-> {}, failed |-> {}, takes |-> 0,
     gives |-> 0, ready |-> 0]

\* No http_serve call in progress.
NoServe ==
    [req |-> "none", closed |-> 0, registered |-> FALSE, full |-> FALSE,
     opened |-> {}, written |-> FALSE]

\* The rendering engine between two refreshes, with nothing to redraw.
\* pc: "loop" (outside a refresh), "refr" (a refresh has begun),
\* "flushed" (its flush has returned, the list of invalid areas is not
\* yet cleared); inv: an invalid area is recorded; late: an area was
\* recorded by another task while a refresh was in progress.
NoRefresh == [pc |-> "loop", inv |-> FALSE, late |-> FALSE]

\* lv_obj_invalidate(lv_disp_get_scr_act(lv_disp_get_default())), as the
\* connect case of websocket_callback calls it (websocket_driver.c:210),
\* in the context of the task that registers the client.
lv_obj_invalidate(e) ==
    [e EXCEPT !.inv = TRUE, !.late = @ \/ e.pc # "loop"]

\* websocket_driver_available() (websocket_driver.c:110-113).
websocket_driver_available(connected) == connected

EmptyBuf == [hdr |-> << >>, msg |-> << >>, npx |-> 0, top |-> 0]

\* The state when app_main calls websocket_driver_init: statics are zero.
Init ==
    /\ sys = "run"
    /\ color_depth \in ColorDepths
    /\ m_pc = "init_ws"
    /\ pixel_depth = 0
    /\ pointer = [mutex |-> "null", flag |-> 0, x |-> 0, y |-> 0]
    /\ websocket_connected = FALSE
    /\ client_queue = [created |-> FALSE, q |-> << >>]
    /\ msg_buf = EmptyBuf
    /\ clients = [i \in Slots |-> FALSE]
    /\ xwebsocket_mutex = "free"
    /\ a_pc = "off" /\ newconn = 0 /\ offered = 0 /\ listening = FALSE
    /\ h_pc = "off" /\ conn = 0
    /\ n_pc = "idle" /\ n_msg = << >> /\ n_len = Len64(0, 0, 0, 0)
    /\ data = NoData
    /\ fl = NoFlush
    /\ last_msg = << >>
    /\ served = << >>
    /\ hs = NoServe
    /\ lv = NoRefresh
    /\ arg = 0 /\ res = [pos |-> 0, bytes |-> << >>]

cfgVars == << color_depth, arg, res >>

accVars == << a_pc, newconn, offered, listening >>

hndVars == << h_pc, conn, served, hs >>

\* hs after a write to slot i that succeeded (ok) or failed: it notes a
\* frame written to the slot the call in progress has opened.
note_written(h, i, ok) ==
    IF ok /\ i \in h.opened THEN [h EXCEPT !.written = TRUE] ELSE h

netVars == << n_pc, n_msg, n_len, last_msg >>

regVars == << clients, xwebsocket_mutex, websocket_connected >>

renVars == << data, fl, msg_buf, lv >>

Running == sys = "run"

\* The board goes down (esp_restart, or an abort) and the contents of RAM
\* are lost: every task stops and every static is what it is at boot.
Down(why) ==
    /\ sys' = why
    /\ m_pc' = "down"
    /\ pixel_depth' = 0
    /\ pointer' = [mutex |-> "null", flag |-> 0, x |-> 0, y |-> 0]
    /\ websocket_connected' = FALSE
    /\ client_queue' = [created |-> FALSE, q |-> << >>]
    /\ msg_buf' = EmptyBuf
    /\ clients' = [i \in Slots |-> FALSE]
    /\ xwebsocket_mutex' = "free"
    /\ a_pc' = "off" /\ newconn' = 0 /\ offered' = 0 /\ listening' = FALSE
    /\ h_pc' = "off" /\ conn' = 0
    /\ n_pc' = "idle" /\ n_msg' = << >> /\ n_len' = Len64(0, 0, 0, 0)
    /\ data' = NoData
    /\ fl' = NoFlush
    /\ last_msg' = << >>
    /\ served' = << >>
    /\ hs' = NoServe
    /\ lv' = NoRefresh
    /\ UNCHANGED cfgVars

\* ------------------------------------------------------------------------
\* main task: websocket_driver_init (websocket_driver.c:87-107)
\* ------------------------------------------------------------------------

\* ws_server_start() (line 91).
InitWsServerStart ==
    /\ Running /\ m_pc = "init_ws"
    /\ m_pc' = "init_server_task"
    /\ UNCHANGED << sys, pixel_depth, pointer, client_queue, cfgVars, accVars,
                    hndVars, netVars, regVars, renVars >>

\* xTaskCreate(&server_task, ...) (line 92).
InitCreateServerTask ==
    /\ Running /\ m_pc = "init_server_task"
    /\ m_pc' = "init_handle_task"
    /\ a_pc' = "start"
    /\ UNCHANGED << sys, pixel_depth, pointer, client_queue, cfgVars,
                    newconn, offered, listening, hndVars, netVars, regVars,
                    renVars >>

\* xTaskCreate(&server_handle_task, ...) (line 93).
InitCreateHandleTask ==
    /\ Running /\ m_pc = "init_handle_task"
    /\ m_pc' = "init_depth"
    /\ h_pc' = "receive"
    /\ UNCHANGED << sys, pixel_depth, pointer, client_queue, cfgVars, accVars,
                    conn, served, hs, netVars, regVars, renVars >>

\* pixel_depth from LV_COLOR_DEPTH (lines 95-101).
InitPixelDepth ==
    /\ Running /\ m_pc = "init_depth"
    /\ m_pc' = "init_mutex"
    /\ pixel_depth' = IF color_depth = 32 THEN 32
                      ELSE IF color_depth = 16 THEN 16 ELSE 8
    /\ UNCHANGED << sys, pointer, client_queue, cfgVars, accVars, hndVars,
                    netVars, regVars, renVars >>

\* pointer.mutex = xSemaphoreCreateMutex() (line 103).
InitCreateMutex ==
    /\ Running /\ m_pc = "init_mutex"
    /\ m_pc' = "init_flag"
    /\ pointer' = [pointer EXCEPT !.mutex = "free"]
    /\ UNCHANGED << sys, pixel_depth, client_queue, cfgVars, accVars, hndVars,
                    netVars, regVars, renVars >>

\* pointer.flag = 0 (line 104): a plain store, the mutex is not taken.
InitPointerFlag ==
    /\ Running /\ m_pc = "init_flag"
    /\ m_pc' = "init_x"
    /\ pointer' = [pointer EXCEPT !.flag = 0]
    /\ UNCHANGED << sys, pixel_depth, client_queue, cfgVars, accVars, hndVars,
                    netVars, regVars, renVars >>

\* pointer.x = 0 (line 105).
InitPointerX ==
    /\ Running /\ m_pc = "init_x"
    /\ m_pc' = "init_y"
    /\ pointer' = [pointer EXCEPT !.x = 0]
    /\ UNCHANGED << sys, pixel_depth, client_queue, cfgVars, accVars, hndVars,
                    netVars, regVars, renVars >>

\* pointer.y = 0 (line 106); init returns and app_main registers the
\* driver's callbacks with the engine (main.c:66-78).
InitPointerY ==
    /\ Running /\ m_pc = "init_y"
    /\ m_pc' = "idle"
    /\ pointer' = [pointer EXCEPT !.y = 0]
    /\ UNCHANGED << sys, pixel_depth, client_queue, cfgVars, accVars, hndVars,
                    netVars, regVars, renVars >>

\* ------------------------------------------------------------------------
\* network context: websocket_callback (websocket_driver.c:201-242)
\* ------------------------------------------------------------------------

\* An open client sends a binary message: the server calls
\* websocket_callback(s, WEBSOCKET_BIN, msg, len).
NetRecvBin(Ms, Ls) ==
    /\ Running /\ n_pc = "idle"
    /\ \E s \in Slots, m \in Ms, len \in Ls :
          /\ clients[s]
          /\ n_msg' = m
          /\ n_len' = len
    /\ n_pc' = "cb_bin"
    /\ UNCHANGED << sys, m_pc, pixel_depth, pointer, client_queue, cfgVars,
                    accVars, hndVars, last_msg, regVars, renVars >>

\* if ((uint32_t) len == 5) (line 230); any other length: break.
CbBinCheck ==
    /\ Running /\ n_pc = "cb_bin"
    /\ IF bin_len_ok(n_len)
       THEN /\ n_pc' = "cb_take"
            /\ UNCHANGED << n_msg, n_len >>
       ELSE /\ n_pc' = "idle"
            /\ n_msg' = << >>
            /\ n_len' = Len64(0, 0, 0, 0)
    /\ UNCHANGED << sys, m_pc, pixel_depth, pointer, client_queue, cfgVars,
                    accVars, hndVars, last_msg, regVars, renVars >>

\* xSemaphoreTake(pointer.mutex, portMAX_DELAY) (line 231) on a created
\* mutex: waits until it is free.
CbTake ==
    /\ Running /\ n_pc = "cb_take"
    /\ pointer.mutex = "free"
    /\ pointer' = [pointer EXCEPT !.mutex = "network"]
    /\ n_pc' = "cb_flag"
    /\ last_msg' = n_msg
    /\ UNCHANGED << sys, m_pc, pixel_depth, client_queue, cfgVars, accVars,
                    hndVars, n_msg, n_len, regVars, renVars >>

\* xSemaphoreTake (line 231) on a handle that is still NULL: the board
\* stops (assert / exception).
CbTakeNull ==
    /\ Running /\ n_pc = "cb_take"
    /\ pointer.mutex = "null"
    /\ Down("abort")

\* pointer.flag = (uint8_t) msg[0] (line 232).
CbFlag ==
    /\ Running /\ n_pc = "cb_flag"
    /\ pointer' = [pointer EXCEPT !.flag = msg_flag(n_msg)]
    /\ n_pc' = "cb_x"
    /\ UNCHANGED << sys, m_pc, pixel_depth, client_queue, cfgVars, accVars,
                    hndVars, n_msg, n_len, last_msg, regVars, renVars >>

\* pointer.x = (msg[1] << 8) | msg[2] (line 233).
CbX ==
    /\ Running /\ n_pc = "cb_x"
    /\ pointer' = [pointer EXCEPT !.x = msg_x(n_msg)]
    /\ n_pc' = "cb_y"
    /\ UNCHANGED << sys, m_pc, pixel_depth, client_queue, cfgVars, accVars,
                    hndVars, n_msg, n_len, last_msg, regVars, renVars >>

\* pointer.y = (msg[3] << 8) | msg[4] (line 234).
CbY ==
    /\ Running /\ n_pc = "cb_y"
    /\ pointer' = [pointer EXCEPT !.y = msg_y(n_msg)]
    /\ n_pc' = "cb_give"
    /\ UNCHANGED << sys, m_pc, pixel_depth, client_queue, cfgVars, accVars,
                    hndVars, n_msg, n_len, last_msg, regVars, renVars >>

\* A callback that returns without giving the mutex.
keep_pointer_lock == "network"

\* pointer.mutex after the xSemaphoreGive of line 235.
give_pointer_lock == "free"

\* xSemaphoreGive(pointer.mutex) (line 235); the callback returns.
CbGive ==
    /\ Running /\ n_pc = "cb_give"
    /\ pointer' = [pointer EXCEPT !.mutex = give_pointer_lock]
    /\ n_pc' = "idle"
    /\ n_msg' = << >>
    /\ n_len' = Len64(0, 0, 0, 0)
    /\ UNCHANGED << sys, m_pc, pixel_depth, client_queue, cfgVars, accVars,
                    hndVars, last_msg, regVars, renVars >>

\* A client closes, or the server drops it: the registry entry is closed
\* under the registry lock and the client's callback is notified
\* (WEBSOCKET_DISCONNECT_EXTERNAL / WEBSOCKET_DISCONNECT_INTERNAL).
NetDisconnect ==
    /\ Running /\ n_pc = "idle"
    /\ xwebsocket_mutex = "free"
    /\ \E s \in Slots,
          type \in { "DISCONNECT_EXTERNAL", "DISCONNECT_INTERNAL" } :
          /\ clients[s]
          /\ clients' = [clients EXCEPT ![s] = FALSE]
          /\ websocket_connected' =
                websocket_callback_connected(type, clients',
                                             websocket_connected)
    /\ UNCHANGED << sys, m_pc, pixel_depth, pointer, client_queue, cfgVars,
                    accVars, hndVars, netVars, xwebsocket_mutex, renVars >>

\* ------------------------------------------------------------------------
\* main task: websocket_driver_read (websocket_driver.c:185-194)
\* ------------------------------------------------------------------------

\* xSemaphoreTake(pointer.mutex, portMAX_DELAY) (line 187).
ReadTake ==
    /\ Running /\ m_pc = "idle"
    /\ pointer.mutex = "free"
    /\ pointer' = [pointer EXCEPT !.mutex = "main"]
    /\ m_pc' = "rd_copy"
    /\ UNCHANGED << sys, pixel_depth, client_queue, cfgVars, accVars, hndVars,
                    netVars, regVars, renVars >>

\* The three loads of lines 188-190, made with the mutex held.
ReadCopy ==
    /\ Running /\ m_pc = "rd_copy"
    /\ data' = indev_data(pointer.flag, pointer.x, pointer.y)
    /\ m_pc' = "rd_give"
    /\ UNCHANGED << sys, pixel_depth, pointer, client_queue, cfgVars, accVars,
                    hndVars, netVars, regVars, fl, msg_buf >>
    /\ UNCHANGED lv

\* xSemaphoreGive(pointer.mutex) (line 191).
ReadGive ==
    /\ Running /\ m_pc = "rd_give"
    /\ pointer' = [pointer EXCEPT !.mutex = "free"]
    /\ m_pc' = "rd_ret"
    /\ UNCHANGED << sys, pixel_depth, client_queue, cfgVars, accVars, hndVars,
                    netVars, regVars, renVars >>

\* return false (line 193): the engine consumes data.
ReadReturn ==
    /\ Running /\ m_pc = "rd_ret"
    /\ data' = NoData
    /\ m_pc' = "idle"
    /\ UNCHANGED << sys, pixel_depth, pointer, client_queue, cfgVars, accVars,
                    hndVars, netVars, regVars, fl, msg_buf >>
    /\ UNCHANGED lv

\* ------------------------------------------------------------------------
\* main task: websocket_driver_flush (websocket_driver.c:116-182) with
\* ws_send_nocopy_bin_all (websocket_driver.c:416-440)
\* ------------------------------------------------------------------------

\* A flush that returns early when no client is connected.
after_if_early_return(connected) ==
    IF connected THEN "f_ready" ELSE "f_ret"

\* Where control is after the if statement of lines 124-179, whichever
\* branch was taken: at lv_disp_flush_ready (line 181).
after_if(connected) == "f_ready"

\* A broadcast loop that stops at the first failed write.
next_slot_break(i, err) ==
    IF err THEN WEBSOCKET_SERVER_MAX_CLIENTS ELSE i + 1

\* The loop of line 425: the next slot, whatever the write returned.
next_slot(i, err) == i + 1

\* What the bytes written past the end of msg_buf can do, short of
\* stopping the board: land on memory nothing reads, overwrite the
\* pointer's fields, or overwrite pixel_depth.
OverrunOutcomes == { "spare", "pointer", "pixel_depth" }

\* One past the highest index of msg_buf a flush of region a writes.
flush_top(a, cdepth, pdepth) ==
    set_msg_buf(lv_area_get_width(a) * lv_area_get_height(a)
                  * sizeof_lv_color_t(cdepth) + PIXEL_BUF_HEADER_LEN).pos
      + PIXEL_BUF_HEADER_LEN
      + lv_area_get_width(a) * lv_area_get_height(a)
          * loop_bytes_per_pixel(pdepth)

\* Lines 124-176: the test of websocket_connected and, when it is set, the
\* frame header, the 13 bytes of the pixel header and the pixel loop.
\* Nothing compares the length with the size of msg_buf.
FlushCall(Areas) ==
    /\ Running /\ m_pc = "idle"
    /\ \E a \in Areas, o \in OverrunOutcomes :
        LET size    == lv_area_get_width(a) * lv_area_get_height(a)
            payload == size * sizeof_lv_color_t(color_depth)
                         + PIXEL_BUF_HEADER_LEN
            hd      == set_msg_buf(payload)
            npx     == size * loop_bytes_per_pixel(pixel_depth)
            top     == flush_top(a, color_depth, pixel_depth)
            over    == top > msg_buf_len(color_depth)
            call    == [NoFlush EXCEPT !.area = a,
                                       !.entry_open = OpenSlots(clients),
                                       !.connected = websocket_connected]
        IN  IF ~ websocket_connected
            THEN /\ o = "spare"
                 /\ fl' = call
                 /\ m_pc' = after_if(FALSE)
                 /\ UNCHANGED << msg_buf, pointer, pixel_depth >>
            ELSE /\ msg_buf' =
                      [hdr |-> hd.bytes,
                       msg |-> pixel_buf_header(pixel_depth, LV_HOR_RES_MAX,
                                                LV_VER_RES_MAX, a),
                       npx |-> npx,
                       top |-> top]
                 /\ fl' = [call EXCEPT !.touched = TRUE, !.over = over,
                                       !.len = payload + hd.pos]
                 /\ m_pc' = "f_lock"
                 /\ IF ~ over THEN o = "spare" ELSE TRUE
                 /\ pointer' = IF o = "pointer"
                               THEN [pointer EXCEPT !.flag = 255,
                                                    !.x = 65535, !.y = 65535]
                               ELSE pointer
                 /\ pixel_depth' = IF o = "pixel_depth" THEN 255
                                   ELSE pixel_depth
    /\ UNCHANGED << sys, client_queue, cfgVars, accVars, hndVars, netVars,
                    regVars, data >>

\* The same call made with the engine's own state left alone.
FlushEnter(Areas) == FlushCall(Areas) /\ UNCHANGED lv

\* The pixel loop of a connected flush runs past the end of msg_buf and
\* what it overwrites stops the board before the flush returns.
FlushOverrunAbort(Areas) ==
    /\ Running /\ m_pc = "idle"
    /\ websocket_connected
    /\ \E a \in Areas :
          flush_top(a, color_depth, pixel_depth) > msg_buf_len(color_depth)
    /\ Down("abort")

\* A broadcast that does not take the registry lock.
no_registry_lock == "free"

\* The holder of xwebsocket_mutex once the xSemaphoreTake of line 422
\* has returned: the task running the flush.
take_registry_lock == "main"

\* xSemaphoreTake(xwebsocket_mutex, portMAX_DELAY) (line 422).
FlushLock ==
    /\ Running /\ m_pc = "f_lock"
    /\ xwebsocket_mutex = "free"
    /\ xwebsocket_mutex' = take_registry_lock
    /\ fl' = [fl EXCEPT !.i = 0, !.lock_open = OpenSlots(clients),
                        !.takes = @ + 1]
    /\ m_pc' = "f_loop"
    /\ UNCHANGED << sys, pixel_depth, pointer, client_queue, cfgVars, accVars,
                    hndVars, netVars, clients, websocket_connected, data,
                    msg_buf >>
    /\ UNCHANGED lv

\* A count of the open clients that takes the registry lock first.
count_takes_registry_lock == TRUE

\* num_connected_clients() (lines 442-451) reads clients[] without taking
\* xwebsocket_mutex, and so does the rest of websocket_callback.
callback_takes_registry_lock == FALSE

\* One iteration of the loop of lines 425-435: the test of the slot and,
\* for an open slot, netconn_write (line 427), which succeeds or fails.
FlushSlot ==
    /\ Running /\ m_pc = "f_loop"
    /\ fl.i < WEBSOCKET_SERVER_MAX_CLIENTS
    /\ IF clients[fl.i]
       THEN \E err \in BOOLEAN :
              /\ fl' = [fl EXCEPT
                          !.attempted = @ \cup { fl.i },
                          !.failed = IF err THEN @ \cup { fl.i } ELSE @,
                          !.i = IF err THEN @ ELSE next_slot(fl.i, FALSE)]
              /\ m_pc' = IF err THEN "f_notify" ELSE "f_loop"
              /\ hs' = note_written(hs, fl.i, ~ err)
       ELSE /\ fl' = [fl EXCEPT !.i = next_slot(fl.i, FALSE)]
            /\ m_pc' = "f_loop"
            /\ hs' = hs
    /\ UNCHANGED << sys, pixel_depth, pointer, client_queue, cfgVars,
                    accVars, h_pc, conn, served, netVars, regVars, data, msg_buf >>
    /\ UNCHANGED lv

\* After a failed write: the client's callback is called with
\* WEBSOCKET_DISCONNECT_ERROR (line 431), still inside the lock, and
\* then the client is disconnected (line 432).
FlushNotify ==
    /\ Running /\ m_pc = "f_notify"
    /\ callback_takes_registry_lock => xwebsocket_mutex = "free"
    /\ websocket_connected' =
          websocket_callback_connected("DISCONNECT_ERROR", clients,
                                       websocket_connected)
    /\ clients' = [clients EXCEPT ![fl.i] = FALSE]
    /\ fl' = [fl EXCEPT !.i = next_slot(fl.i, TRUE)]
    /\ m_pc' = "f_loop"
    /\ UNCHANGED << sys, pixel_depth, pointer, client_queue, cfgVars,
                    accVars, hndVars, netVars, xwebsocket_mutex, data,
                    msg_buf >>
    /\ UNCHANGED lv

\* xSemaphoreGive(xwebsocket_mutex) (line 437) and the return to flush.
FlushUnlock ==
    /\ Running /\ m_pc = "f_loop"
    /\ fl.i >= WEBSOCKET_SERVER_MAX_CLIENTS
    /\ xwebsocket_mutex' = "free"
    /\ fl' = [fl EXCEPT !.gives = @ + 1]
    /\ m_pc' = after_if(TRUE)
    /\ UNCHANGED << sys, pixel_depth, pointer, client_queue, cfgVars, accVars,
                    hndVars, netVars, clients, websocket_connected, data,
                    msg_buf >>
    /\ UNCHANGED lv

\* lv_disp_flush_ready(drv) (line 181).
FlushReady ==
    /\ Running /\ m_pc = "f_ready"
    /\ fl' = [fl EXCEPT !.ready = @ + 1]
    /\ m_pc' = "f_ret"
    /\ UNCHANGED << sys, pixel_depth, pointer, client_queue, cfgVars, accVars,
                    hndVars, netVars, regVars, data, msg_buf >>
    /\ UNCHANGED lv

\* The closing brace of line 182: the call returns to the engine.
FlushReturn ==
    /\ Running /\ m_pc = "f_ret"
    /\ fl' = NoFlush
    /\ m_pc' = "idle"
    /\ UNCHANGED << sys, pixel_depth, pointer, client_queue, cfgVars, accVars,
                    hndVars, netVars, regVars, data, msg_buf >>
    /\ UNCHANGED lv

\* ------------------------------------------------------------------------
\* acceptor task: server_task (websocket_driver.c:325-347)
\* ------------------------------------------------------------------------

\* xQueueSendToBack(..., portMAX_DELAY) blocks while the queue holds
\* client_queue_size items (line 339).
queue_has_room(q) == Len(q) < client_queue_size

\* A send that puts the item in front.
xQueueSendToFront(q, c) == << c >> \o q

\* xQueueSendToBack(client_queue, &newconn, ...) (line 339).
xQueueSendToBack(q, c) == Append(q, c)

\* xQueueCreate, netconn_new, netconn_bind, netconn_listen (lines 329-334).
ServerTaskStart ==
    /\ Running /\ a_pc = "start"
    /\ client_queue' = [created |-> TRUE, q |-> << >>]
    /\ listening' = TRUE
    /\ a_pc' = "accept"
    /\ UNCHANGED << sys, m_pc, pixel_depth, pointer, cfgVars, newconn,
                    offered, hndVars, netVars, regVars, renVars >>

\* netconn_accept returns ERR_OK with a new connection (lines 336-338).
Accept(max) ==
    /\ Running /\ a_pc = "accept"
    /\ offered < max
    /\ offered' = offered + 1
    /\ newconn' = offered + 1
    /\ a_pc' = "send"
    /\ UNCHANGED << sys, m_pc, pixel_depth, pointer, client_queue, cfgVars,
                    listening, hndVars, netVars, regVars, renVars >>

\* A loop that sends newconn whatever netconn_accept returned.
send_always(ok) == TRUE

\* if (err == ERR_OK) (line 338): newconn is sent only after a
\* successful accept.
send_if(ok) == ok

\* netconn_accept returns an error: the if of line 338 skips the send and
\* the loop of lines 335-342 ends.
AcceptFail ==
    /\ Running /\ a_pc = "accept"
    /\ client_queue' =
          IF send_if(FALSE) /\ queue_has_room(client_queue.q)
          THEN [client_queue EXCEPT !.q = xQueueSendToBack(@, newconn)]
          ELSE client_queue
    /\ a_pc' = "end"
    /\ UNCHANGED << sys, m_pc, pixel_depth, pointer, cfgVars, newconn,
                    offered, listening, hndVars, netVars, regVars, renVars >>

\* xQueueSendToBack(client_queue, &newconn, portMAX_DELAY) (line 339).
QueueSend ==
    /\ Running /\ a_pc = "send"
    /\ queue_has_room(client_queue.q)
    /\ client_queue' =
          [client_queue EXCEPT !.q = xQueueSendToBack(@, newconn)]
    /\ a_pc' = "accept"
    /\ UNCHANGED << sys, m_pc, pixel_depth, pointer, cfgVars, newconn,
                    offered, listening, hndVars, netVars, regVars, renVars >>

\* netconn_close(conn), netconn_delete(conn) (lines 343-344): the
\* listening socket is closed.
ServerTaskClose ==
    /\ Running /\ a_pc = "end"
    /\ listening' = FALSE
    /\ a_pc' = "closed"
    /\ UNCHANGED << sys, m_pc, pixel_depth, pointer, client_queue, cfgVars,
                    newconn, offered, hndVars, netVars, regVars, renVars >>

\* esp_restart() (lines 345-346).
ServerTaskEnd ==
    /\ Running /\ a_pc = "closed"
    /\ Down("restart")

\* ------------------------------------------------------------------------
\* handler task: server_handle_task (websocket_driver.c:350-360) and
\* http_serve (websocket_driver.c:245-322)
\* ------------------------------------------------------------------------

\* What netconn_recv delivers for a connection: an error or the timeout
\* of line 265, no data, or a request for the page, for the websocket,
\* for the icon, or for anything else.
Requests ==
    { "recv_error", "empty", "page", "upgrade", "favicon", "unknown" }

\* The same where only the registry matters: a peer asks for the
\* websocket or sends nothing.
RegistryRequests == { "upgrade", "recv_error" }

FreeSlots(cl) == { i \in Slots : ~ cl[i] }

FirstFree(cl) == CHOOSE i \in FreeSlots(cl) : \A j \in FreeSlots(cl) : i <= j

\* xQueueReceive(client_queue, &conn, portMAX_DELAY) (line 355) on a
\* created queue: waits for an item.
QueueReceive ==
    /\ Running /\ h_pc = "receive"
    /\ client_queue.created
    /\ client_queue.q # << >>
    /\ conn' = Head(client_queue.q)
    /\ client_queue' = [client_queue EXCEPT !.q = Tail(@)]
    /\ served' = Append(served, Head(client_queue.q))
    /\ h_pc' = "serve"
    /\ UNCHANGED << sys, m_pc, pixel_depth, pointer, cfgVars, accVars, hs,
                    netVars, regVars, renVars >>

\* xQueueReceive (line 355) on a handle that is still NULL: the board
\* stops.
QueueReceiveNull ==
    /\ Running /\ h_pc = "receive"
    /\ ~ client_queue.created
    /\ Down("abort")

\* netconn_close(conn) and netconn_delete(conn) as the branches of
\* http_serve call them (lines 280-281, 297-298, 304-305, 311-312,
\* 318-319): once each.
close_and_delete(n) == n + 1

\* Lines 289-290: ws_server_add_client(conn, ...) is called as a
\* statement, its return value is not looked at, and netbuf_delete
\* follows: nothing closes conn, registered or not.
add_client_ignore_result(n, full) == n

\* http_serve(conn) (line 357, lines 245-322).  netconn_recv returns
\* within the timeout of line 265.  An upgrade request is handed to
\* ws_server_add_client (line 289), which under the registry lock takes
\* the first free slot and notifies WEBSOCKET_CONNECT; with no free slot
\* it reports failure and registers nothing.  Every other outcome closes
\* and deletes the connection.
HttpServe(Reqs) ==
    /\ Running /\ h_pc = "serve"
    /\ \E req \in Reqs :
          IF req = "upgrade"
          THEN /\ xwebsocket_mutex = "free"
               /\ hs' = [req |-> req,
                         closed |-> add_client_ignore_result(
                                       0, FreeSlots(clients) = {}),
                         registered |-> FreeSlots(clients) # {},
                         full |-> FreeSlots(clients) = {},
                         opened |-> IF FreeSlots(clients) # {}
                                    THEN { FirstFree(clients) } ELSE {},
                         written |-> FALSE]
               /\ IF FreeSlots(clients) # {}
                  THEN /\ clients' =
                            [clients EXCEPT ![FirstFree(clients)] = TRUE]
                       /\ websocket_connected' =
                            websocket_callback_connected(
                                "CONNECT", clients', websocket_connected)
                       /\ lv' = lv_obj_invalidate(lv)
                  ELSE UNCHANGED << clients, websocket_connected, lv >>
          ELSE /\ hs' = [req |-> req, closed |-> close_and_delete(0),
                         registered |-> FALSE, full |-> FALSE,
                         opened |-> {}, written |-> FALSE]
               /\ UNCHANGED << clients, websocket_connected, lv >>
    /\ h_pc' = "served"
    /\ UNCHANGED << sys, m_pc, pixel_depth, pointer, client_queue, cfgVars,
                    accVars, conn, served, netVars, xwebsocket_mutex,
                    data, fl, msg_buf >>

\* http_serve returns (line 322) and the loop of line 354 goes round.
HttpReturn ==
    /\ Running /\ h_pc = "served"
    /\ hs' = NoServe
    /\ conn' = 0
    /\ h_pc' = "receive"
    /\ UNCHANGED << sys, m_pc, pixel_depth, pointer, client_queue, cfgVars,
                    accVars, served, netVars, regVars, renVars >>

\* ------------------------------------------------------------------------
\* Specifications
\* ------------------------------------------------------------------------

\* ------------------------------------------------------------------------
\* main task: the render loop (main.c:85-92) and the rendering engine
\* ------------------------------------------------------------------------

\* One round of the loop of main.c:85-92: when the driver is available,
\* lv_task_handler() runs and begins a refresh if an invalid area is
\* recorded; otherwise the task only sleeps.
RenderLoop ==
    /\ Running /\ m_pc = "idle" /\ lv.pc = "loop"
    /\ lv' = IF websocket_driver_available(websocket_connected) /\ lv.inv
             THEN [lv EXCEPT !.pc = "refr"]
             ELSE lv
    /\ UNCHANGED << sys, m_pc, pixel_depth, pointer, client_queue, cfgVars,
                    accVars, hndVars, netVars, regVars, data, fl, msg_buf >>

\* The refresh calls flush_cb, registered at main.c:69, on the region
\* it has drawn.
EngineFlush(Areas) ==
    /\ lv.pc = "refr"
    /\ FlushCall(Areas)
    /\ lv' = [lv EXCEPT !.pc = "flushed"]

\* The refresh ends: the engine clears its list of invalid areas.  An
\* area another task recorded during the refresh, with no lock shared
\* with the render thread, is kept or is cleared with the rest.
EngineClear ==
    /\ Running /\ m_pc = "idle" /\ lv.pc = "flushed"
    /\ \E keep \in IF lv.late THEN BOOLEAN ELSE { FALSE } :
          lv' = [pc |-> "loop", inv |-> keep, late |-> FALSE]
    /\ UNCHANGED << sys, m_pc, pixel_depth, pointer, client_queue, cfgVars,
                    accVars, hndVars, netVars, regVars, data, fl, msg_buf >>

InitSteps ==
    \/ InitWsServerStart \/ InitCreateServerTask \/ InitCreateHandleTask
    \/ InitPixelDepth \/ InitCreateMutex
    \/ InitPointerFlag \/ InitPointerX \/ InitPointerY

ReadSteps == ReadTake \/ ReadCopy \/ ReadGive \/ ReadReturn

FlushSteps(Areas) ==
    \/ FlushEnter(Areas) \/ FlushLock \/ FlushSlot \/ FlushNotify
    \/ FlushUnlock
    \/ FlushReady \/ FlushReturn

BinSteps(Ms, Ls) ==
    \/ NetRecvBin(Ms, Ls) \/ CbBinCheck \/ CbTake \/ CbTakeNull
    \/ CbFlag \/ CbX \/ CbY \/ CbGive

AcceptorSteps(max) ==
    \/ ServerTaskStart \/ Accept(max) \/ AcceptFail \/ QueueSend
    \/ ServerTaskClose \/ ServerTaskEnd

HandlerSteps(Reqs) ==
    QueueReceive \/ QueueReceiveNull \/ HttpServe(Reqs) \/ HttpReturn

\* The display path: the engine flushes regions that fit its draw buffer,
\* clients come and go, none sends a message and the engine does not poll
\* the pointer.
NextFlush ==
    \/ InitSteps \/ FlushSteps(LvglAreas) \/ NetDisconnect
    \/ AcceptorSteps(MaxConns) \/ HandlerSteps(RegistryRequests)

SpecFlush == Init /\ [][NextFlush]_vars

\* The display path with a caller that may pass any region.
NextApi ==
    \/ InitSteps \/ FlushSteps(LvglAreas \cup OversizeAreas)
    \/ FlushOverrunAbort(OversizeAreas) \/ NetDisconnect
    \/ AcceptorSteps(MaxApiConns) \/ HandlerSteps(RegistryRequests)

SpecApi == Init /\ [][NextApi]_vars

\* The input path: clients send messages and the engine polls the
\* pointer; the engine flushes nothing.
NextPointer ==
    \/ InitSteps \/ ReadSteps \/ BinSteps(Msgs, Lens) \/ NetDisconnect
    \/ AcceptorSteps(MaxConns) \/ HandlerSteps(RegistryRequests)

SpecPointer == Init /\ [][NextPointer]_vars

\* All four tasks together, for the order in which they take and give
\* the two locks: the engine flushes one small region and polls the
\* pointer, a client sends one message with a length that is accepted or
\* one that is not, clients come and go.
LockAreas == { Area(0, 0, 0, 0) }

LockMsgs == { << 1, 0, 10, 0, 20 >> }

LockLens == { Len64(0, 0, 0, 5), Len64(0, 0, 0, 4) }

NextLocks ==
    \/ InitSteps \/ ReadSteps \/ FlushSteps(LockAreas)
    \/ BinSteps(LockMsgs, LockLens) \/ NetDisconnect
    \/ AcceptorSteps(MaxApiConns) \/ HandlerSteps(RegistryRequests)

\* One build: the locks do not depend on the colour depth.
InitLocks == Init /\ color_depth = 16

SpecLocks == InitLocks /\ [][NextLocks]_vars

\* The hand-off through client_queue alone: the network offers more
\* connections than the queue holds, no client sends a message and the
\* engine makes no call.
NextQueue ==
    InitSteps \/ AcceptorSteps(MaxQueueConns) \/ HandlerSteps(Requests)

SpecQueue == Init /\ [][NextQueue]_vars

\* The same with the scheduler's guarantee: the acceptor (priority 9) and
\* the handler (priority 6) run when they can, and app_main runs
\* websocket_driver_init to its end.  Once accept has failed
\* the acceptor goes on to the close and the restart; the handler takes
\* an item that is queued, http_serve gets past netconn_recv (the
\* timeout of line 265) and returns.  Whether a peer connects, and
\* whether accept fails, is left to the network.
FairQueue ==
    /\ SpecQueue
    /\ WF_vars(InitSteps)
    /\ WF_vars(ServerTaskClose) /\ WF_vars(ServerTaskEnd)
    /\ WF_vars(QueueReceive) /\ WF_vars(HttpServe(Requests))
    /\ WF_vars(HttpReturn)

\* The render loop of main.c with the engine behind it: the engine alone
\* calls flush, on the first strip of a screen it redraws, and only in a
\* refresh the loop has started; clients come and go.
RenderAreas == { Area(0, 0, LV_HOR_RES_MAX - 1, 29) }

RenderSteps ==
    \/ RenderLoop \/ EngineFlush(RenderAreas) \/ FlushLock \/ FlushSlot
    \/ FlushNotify \/ FlushUnlock \/ FlushReady \/ FlushReturn
    \/ EngineClear

NextRender ==
    \/ InitSteps \/ RenderSteps \/ NetDisconnect
    \/ AcceptorSteps(MaxConns) \/ HandlerSteps(RegistryRequests)

InitRender == Init /\ color_depth = 16

SpecRender == InitRender /\ [][NextRender]_vars

\* Every task is scheduled fairly: app_main's task is never suspended
\* for ever (the tasks above it block in accept, in the queue and in
\* recv), a write to a socket returns, and the acceptor and the handler,
\* of higher priority, take the steps that wait for no peer.
FairRender ==
    /\ SpecRender
    /\ WF_vars(InitSteps)
    /\ WF_vars(RenderSteps)
    /\ WF_vars(QueueSend)
    /\ WF_vars(ServerTaskClose) /\ WF_vars(ServerTaskEnd)
    /\ WF_vars(QueueReceive) /\ WF_vars(HttpServe(RegistryRequests))
    /\ WF_vars(HttpReturn)

\* set_msg_buf applied alone to a payload length.
HeaderLens ==
    (0 .. MaxSmallLen)
      \cup ((65536 - HeaderSpan) .. (65536 + HeaderSpan))
      \cup { 16777215, 16777216, 2147483647 }

InitHeader ==
    /\ sys = "run"
    /\ color_depth = 32
    /\ m_pc = "init_ws"
    /\ pixel_depth = 0
    /\ pointer = [mutex |-> "null", flag |-> 0, x |-> 0, y |-> 0]
    /\ websocket_connected = FALSE
    /\ client_queue = [created |-> FALSE, q |-> << >>]
    /\ msg_buf = EmptyBuf
    /\ clients = [i \in Slots |-> FALSE]
    /\ xwebsocket_mutex = "free"
    /\ a_pc = "off" /\ newconn = 0 /\ offered = 0 /\ listening = FALSE
    /\ h_pc = "off" /\ conn = 0
    /\ n_pc = "idle" /\ n_msg = << >> /\ n_len = Len64(0, 0, 0, 0)
    /\ data = NoData
    /\ fl = NoFlush
    /\ last_msg = << >>
    /\ served = << >>
    /\ hs = NoServe
    /\ lv = NoRefresh
    /\ arg \in HeaderLens
    /\ res = [pos |-> 0, bytes |-> << >>]

SetMsgBuf ==
    /\ res.pos = 0
    /\ res' = set_msg_buf(arg)
    /\ UNCHANGED << sys, color_depth, m_pc, pixel_depth, pointer,
                    websocket_connected, client_queue, msg_buf, clients,
                    xwebsocket_mutex, accVars, hndVars, netVars, data, fl,
                    arg >>
    /\ UNCHANGED lv

SpecHeader == InitHeader /\ [][SetMsgBuf]_vars

\* ------------------------------------------------------------------------
\* Properties
\* ------------------------------------------------------------------------

InFlush ==
    m_pc \in { "f_lock", "f_loop", "f_notify", "f_ready", "f_ret" }

\* C1: every call of websocket_driver_flush calls lv_disp_flush_ready
\* exactly once before it returns, whatever the outcome: no client
\* connected, all writes succeed, some or all writes fail, or the region
\* is larger than msg_buf.  Before the call of line 181 nothing is
\* signalled; at the return exactly one signal has been given.
C1_FlushReadyOnce ==
    /\ m_pc = "f_ret" => fl.ready = 1
    /\ m_pc # "f_ret" => fl.ready = 0

\* A flush of an oversize region in which one write failed and a later one
\* succeeded has signalled once and is about to return.
C1_Witness ==
    /\ m_pc = "f_ret" /\ fl.ready = 1
    /\ fl.over
    /\ \E s \in fl.failed : \E t \in fl.attempted \ fl.failed : s < t

\* C2: partial-failure isolation.  When the loop of a broadcast has ended
\* (the registry lock still held) a write was attempted on every slot that
\* was open when the lock was taken, every slot whose write succeeded is
\* still open and every slot whose write failed is closed; while the loop
\* runs this already holds of the slots it has passed.
C2_PartialFailureIsolation ==
    m_pc = "f_loop" =>
      /\ fl.failed \subseteq fl.attempted
      /\ fl.attempted = { s \in fl.lock_open : s < fl.i }
      /\ \A s \in fl.lock_open :
            clients[s] <=> (s \notin fl.failed)
      /\ fl.i >= WEBSOCKET_SERVER_MAX_CLIENTS =>
            /\ fl.attempted = fl.lock_open
            /\ OpenSlots(clients) = fl.lock_open \ fl.failed

\* A broadcast has ended in which the write on one slot failed and the
\* write on a later slot succeeded.
C2_Witness ==
    /\ m_pc = "f_loop" /\ fl.i >= WEBSOCKET_SERVER_MAX_CLIENTS
    /\ \E s \in fl.failed : \E t \in fl.attempted \ fl.failed :
          s < t /\ ~ clients[s] /\ clients[t]

\* C3: whenever no registry operation is in progress, the flag
\* websocket_driver_available returns equals (number of open clients > 0).
C3_AvailableIffOpen ==
    xwebsocket_mutex = "free" =>
      (websocket_connected <=> (num_connected_clients(clients) > 0))

\* The number of bytes the frame of region a takes: frame header + 13 +
\* pixelCount * bytesPerPixel.
EncodedLen(a) ==
    LET payload == lv_area_get_width(a) * lv_area_get_height(a)
                     * sizeof_lv_color_t(color_depth) + PIXEL_BUF_HEADER_LEN
    IN  set_msg_buf(payload).pos + payload

\* C4: a flush whose encoded length exceeds the size of msg_buf is
\* rejected: it writes nothing past the end of msg_buf, attempts no write
\* to a client and still signals completion once.
C4_OversizeRejected ==
    (InFlush /\ EncodedLen(fl.area) > msg_buf_len(color_depth)) =>
      /\ ~ (fl.touched /\ msg_buf.top > msg_buf_len(color_depth))
      /\ fl.attempted = {}
      /\ m_pc = "f_ret" => fl.ready = 1

\* C5: a flush called while no client is open does not touch msg_buf,
\* attempts no socket write and signals completion.
C5_NoClientNoTouch ==
    (InFlush /\ fl.entry_open = {}) =>
      /\ ~ fl.touched
      /\ fl.attempted = {}
      /\ m_pc = "f_ret" => fl.ready = 1

Writing == n_pc \in { "cb_flag", "cb_x", "cb_y", "cb_give" }

\* C6: an inbound binary message changes the pointer only when its length
\* is exactly 5: whenever the callback is in the stores of lines 232-234
\* the 64-bit length it was called with is 5.
C6_OnlyLengthFive ==
    Writing => n_len = Len64(0, 0, 0, 5)

\* What websocket_driver_read is to return for message m: x = byte1 * 256
\* + byte2, y = byte3 * 256 + byte4, pressed iff byte0 is not zero.
ReadOf(m) ==
    [x |-> m[2] * 256 + m[3], y |-> m[4] * 256 + m[5],
     state |-> IF m[1] # 0 THEN "PR" ELSE "REL"]

\* C7: once a message was accepted, a read that has copied the pointer
\* under the lock (no writer is inside its critical section then) holds
\* the values of the last accepted message, however many were accepted
\* or read before.
C7_ReadReturnsLast ==
    (m_pc = "rd_give" /\ last_msg # << >>) => data = ReadOf(last_msg)

\* C8: what a read has copied is the initial pointer (released, 0, 0) or
\* the three fields one single accepted message set, never fields of two
\* different writes.
C8_NoTornRead ==
    m_pc = "rd_give" =>
      data \in { indev_data(0, 0, 0) }
                 \cup { indev_data(msg_flag(m), msg_x(m), msg_y(m)) :
                          m \in Msgs }

\* The value of the bytes b[from .. to], most significant first.
RECURSIVE BigEndian(_, _, _)
BigEndian(b, from, to) ==
    IF from > to THEN 0
    ELSE BigEndian(b, from, to - 1) * 256 + b[to]

\* C9: set_msg_buf(L) returns 2 and length byte L for L <= 125, 4 and
\* length byte 126 followed by L in 2 big-endian bytes for 126 <= L <=
\* 65535, 10 and length byte 127 followed by L in 8 big-endian bytes for
\* L > 65535; byte 0 is FIN + binary opcode, the mask bit is clear.
C9_HeaderBrackets ==
    res.pos # 0 =>
      /\ Len(res.bytes) = res.pos
      /\ \A k \in 1 .. Len(res.bytes) : res.bytes[k] \in 0 .. 255
      /\ res.bytes[1] = 128 + 2
      /\ res.bytes[2] < 128
      /\ arg <= 125 => (res.pos = 2 /\ res.bytes[2] = arg)
      /\ (126 <= arg /\ arg <= 65535) =>
            /\ res.pos = 4
            /\ res.bytes[2] = 126
            /\ BigEndian(res.bytes, 3, 4) = arg
      /\ arg > 65535 =>
            /\ res.pos = 10
            /\ res.bytes[2] = 127
            /\ \A k \in 3 .. 6 : res.bytes[k] = 0
            /\ BigEndian(res.bytes, 7, 10) = arg

\* The header of a payload of 65536 bytes, the first of the last bracket.
C9_Witness ==
    /\ arg = 65536
    /\ res.pos = 10
    /\ res.bytes = << 130, 127, 0, 0, 0, 0, 0, 1, 0, 0 >>

\* C10: client_queue never holds more than client_queue_size connections,
\* and the connections accepted so far (numbered in the order accepted)
\* are, in that order and each once, those the handler has taken, then
\* those queued, then the one the acceptor is waiting to send.
C10_QueueFifo ==
    /\ Len(client_queue.q) <= client_queue_size
    /\ served \o client_queue.q
         \o (IF a_pc = "send" THEN << newconn >> ELSE << >>)
       = [k \in 1 .. offered |-> k]

\* The queue is full and the acceptor waits with one more connection.
C10_Witness ==
    /\ Len(client_queue.q) = client_queue_size
    /\ a_pc = "send"
    /\ newconn = offered
    /\ ~ ENABLED QueueSend

\* C11: when an upgrade request finds every slot of the registry open,
\* http_serve closes the connection it was given (once), registers
\* nothing, and the clients already registered stay open.
C11_FullRegistryCloses ==
    (h_pc = "served" /\ hs.req = "upgrade" /\ hs.full) =>
      /\ hs.closed = 1
      /\ ~ hs.registered
      /\ OpenSlots(clients) = Slots

\* C12: when http_serve returns, the connection it served was either
\* closed and deleted exactly once and not registered, or (only for an
\* upgrade request) registered and not closed.
C12_OneDisposition ==
    h_pc = "served" =>
      \/ hs.closed = 1 /\ ~ hs.registered
      \/ hs.closed = 0 /\ hs.registered /\ hs.req = "upgrade"

\* The acceptor leaves the loop of lines 335-342.
AcceptorLeaves == a_pc' = "end" /\ a_pc # "end"

\* It does so out of netconn_accept, with no connection and no push.
LeavesOnError ==
    /\ a_pc = "accept"
    /\ offered' = offered
    /\ client_queue' = client_queue

AcceptorLeft == a_pc \in { "end", "closed" }

\* After the loop: no push, no way back, and the restart only with the
\* listening socket closed.
NothingAfterError ==
    /\ Len(client_queue'.q) <= Len(client_queue.q)
    /\ a_pc' \in { "end", "closed", "off" }
    /\ sys' = "restart" => (a_pc = "closed" /\ ~ listening)

\* C13: the acceptor leaves its loop only out of netconn_accept, without
\* a new connection and without a push; once it has left, nothing more is
\* pushed on client_queue, the listening socket is closed before the
\* restart, and the board does go down.
C13_AcceptFailureFatal ==
    /\ [][AcceptorLeaves => LeavesOnError]_vars
    /\ [][AcceptorLeft => NothingAfterError]_vars
    /\ [](a_pc \in { "accept", "send" } => listening)
    /\ (a_pc = "end" ~> sys # "run")

\* Accept has failed while connections were still queued; the listening
\* socket is closed and the restart is next.
C13_Witness ==
    /\ a_pc = "closed"
    /\ ~ listening
    /\ client_queue.q # << >>

\* Connection c waits in client_queue.
Pending(c) == \E k \in 1 .. Len(client_queue.q) : client_queue.q[k] = c

\* http_serve has run for connection c and is about to return.
Returned(c) == h_pc = "served" /\ conn = c

\* ... having closed the connection or registered it.
Disposed(c) == Returned(c) /\ (hs.closed = 1 \/ hs.registered)

\* Every queued connection is taken and http_serve returns for it,
\* whatever the peers before it sent, unless the board goes down first.
HandshakeProgress ==
    \A c \in 1 .. MaxQueueConns : Pending(c) ~> (Returned(c) \/ sys # "run")

\* C14: every connection placed in client_queue is eventually taken by
\* the handler and closed or registered, whatever the peers before it
\* sent, unless the board goes down first.
C14_NoStarvation ==
    \A c \in 1 .. MaxQueueConns : Pending(c) ~> (Disposed(c) \/ sys # "run")

\* The payload length a frame header announces.
announced_len(hdr) ==
    IF hdr[2] % 128 <= 125 THEN hdr[2] % 128
    ELSE IF hdr[2] % 128 = 126 THEN BigEndian(hdr, 3, 4)
    ELSE BigEndian(hdr, 3, 10)

PixelCount(a) == lv_area_get_width(a) * lv_area_get_height(a)

\* C15: in every flush that encodes, the frame header announces as many
\* payload bytes as were written after it, 13 + pixels * bytes per pixel;
\* the length passed to the broadcast is the frame header's length plus
\* that; and the 13 bytes are the depth tag 8, 16 or 32, then the screen
\* width and height and x1, y1, x2, y2 of the region, each in two bytes,
\* most significant first.
C15_FrameSelfConsistent ==
    (InFlush /\ fl.touched) =>
      /\ announced_len(msg_buf.hdr) = Len(msg_buf.msg) + msg_buf.npx
      /\ Len(msg_buf.msg) = PIXEL_BUF_HEADER_LEN
      /\ msg_buf.npx = PixelCount(fl.area) * (msg_buf.msg[1] \div 8)
      /\ fl.len = Len(msg_buf.hdr) + announced_len(msg_buf.hdr)
      /\ msg_buf.top = fl.len
      /\ msg_buf.msg[1] \in { 8, 16, 32 }
      /\ msg_buf.msg[1] = color_depth
      /\ BigEndian(msg_buf.msg, 2, 3) = LV_HOR_RES_MAX
      /\ BigEndian(msg_buf.msg, 4, 5) = LV_VER_RES_MAX
      /\ BigEndian(msg_buf.msg, 6, 7) = fl.area.x1
      /\ BigEndian(msg_buf.msg, 8, 9) = fl.area.y1
      /\ BigEndian(msg_buf.msg, 10, 11) = fl.area.x2
      /\ BigEndian(msg_buf.msg, 12, 13) = fl.area.y2

\* A 5 x 5 region of 16-bit pixels at (10, 300) is encoded: 63 payload
\* bytes behind a 2-byte frame header.
C15_Witness ==
    /\ m_pc = "f_loop"
    /\ fl.touched
    /\ fl.area = Area(10, 300, 14, 304)
    /\ color_depth = 16
    /\ msg_buf.hdr = << 130, 63 >>
    /\ fl.len = 65

\* C16: a flush of a region of at most DISP_BUF_SIZE pixels writes no
\* byte at or past the end of msg_buf, in every pixel format and with
\* each of the frame header lengths 2, 4 and 10.
C16_ScratchBufferBound ==
    (InFlush /\ fl.touched /\ PixelCount(fl.area) <= DISP_BUF_SIZE) =>
      /\ Len(msg_buf.hdr) \in { 2, 4, 10 }
      /\ msg_buf.top
           = Len(msg_buf.hdr) + PIXEL_BUF_HEADER_LEN + msg_buf.npx
      /\ msg_buf.top <= msg_buf_len(color_depth)

\* A full draw buffer of 32-bit pixels: the 10-byte frame header, and
\* the last byte of msg_buf is written.
C16_Witness ==
    /\ InFlush /\ fl.touched
    /\ PixelCount(fl.area) = DISP_BUF_SIZE
    /\ color_depth = 32
    /\ Len(msg_buf.hdr) = WS_BUF_HEADER_MAX_LEN
    /\ msg_buf.top = msg_buf_len(color_depth)

\* A step of the loop of lines 425-435: a slot is tested and, if open,
\* written to, and on failure notified and released.
InLoop == m_pc \in { "f_loop", "f_notify" }

BroadcastStep ==
    /\ InLoop /\ InLoop'
    /\ fl'.i # fl.i \/ fl'.attempted # fl.attempted
         \/ fl'.failed # fl.failed \/ clients' # clients

HeldByFlush == xwebsocket_mutex = "main" /\ xwebsocket_mutex' = "main"

\* C17: every step of the broadcast loop is taken with the registry lock
\* held by the flush, before and after; the flush holds the lock exactly
\* while it is in the loop; an encoding flush has taken it once and given
\* it once when it signals completion, and a flush that does not encode
\* never takes it.
C17_BroadcastUnderLock ==
    /\ [][BroadcastStep => HeldByFlush]_vars
    /\ [](xwebsocket_mutex = "main" <=> InLoop)
    /\ [](InLoop => fl.takes = 1 /\ fl.gives = 0)
    /\ [](m_pc \in { "f_ready", "f_ret" } =>
            IF fl.touched THEN fl.takes = 1 /\ fl.gives = 1
            ELSE fl.takes = 0 /\ fl.gives = 0)

\* A write has just failed and its slot was released inside the loop,
\* while the handler waits with a connection to register.
C17_Witness ==
    /\ m_pc = "f_loop"
    /\ xwebsocket_mutex = "main"
    /\ fl.failed # {}
    /\ \E s \in fl.failed : ~ clients[s]
    /\ h_pc = "serve"

\* A step of websocket_callback handling a binary message.
InboundStep == n_pc # "idle" /\ n_pc' # n_pc /\ sys' = "run"

\* C18: no step of the inbound-message callback touches the registry
\* lock; the pointer lock is held by the callback exactly during the
\* three stores and the give, and by the render thread exactly during
\* the copy of a read and the give, so never while a flush waits for the
\* registry lock or writes to a socket, and never by the network context
\* between callbacks, where it takes the registry lock for a disconnect.
C18_InboundLockDiscipline ==
    /\ [][InboundStep => xwebsocket_mutex' = xwebsocket_mutex]_vars
    /\ [](pointer.mutex = "network"
            <=> n_pc \in { "cb_flag", "cb_x", "cb_y", "cb_give" })
    /\ [](pointer.mutex = "main" <=> m_pc \in { "rd_copy", "rd_give" })
    /\ [](m_pc \in { "f_lock", "f_loop", "f_notify" }
            => pointer.mutex # "main")
    /\ [](xwebsocket_mutex = "main" => pointer.mutex # "main")

\* The callback is inside its three stores while a flush holds the
\* registry lock in the broadcast loop.
C18_Witness ==
    /\ n_pc = "cb_x"
    /\ pointer.mutex = "network"
    /\ m_pc = "f_loop"
    /\ xwebsocket_mutex = "main"

\* The steps the render thread takes inside a driver call it has begun.
MainSteps ==
    \/ InitSteps \/ ReadCopy \/ ReadGive \/ ReadReturn
    \/ FlushLock \/ FlushSlot \/ FlushNotify \/ FlushUnlock
    \/ FlushReady \/ FlushReturn

\* The steps of websocket_callback on a binary message it was given.
CallbackSteps ==
    \/ CbBinCheck \/ CbTake \/ CbTakeNull
    \/ CbFlag \/ CbX \/ CbY \/ CbGive

\* The steps that leave a critical section of the pointer lock, and of
\* the registry lock.
WriterLeaves == CbFlag \/ CbX \/ CbY \/ CbGive

ReaderLeaves == ReadCopy \/ ReadGive

BroadcastLeaves == FlushSlot \/ FlushNotify \/ FlushUnlock

\* Every task waits for its external input: a call of the engine, a
\* connection to accept, a connection in the queue, a message.
AllWaitExternal ==
    /\ m_pc = "idle"
    /\ a_pc \in { "accept", "off" }
    /\ h_pc \in { "receive", "off" } /\ client_queue.q = << >>
    /\ n_pc = "idle"

\* C19: while the system runs, the render thread inside a driver call
\* can always take its next step (so the notification of a failed write,
\* made with the registry lock held, waits for no lock); the callback can
\* step unless it waits for the pointer lock while a read holds it, and
\* the holder of either lock can always take the steps that release it;
\* a read can start as soon as no callback holds the pointer lock; the
\* handler with a connection to serve waits at most for a broadcast that
\* can step; and some task can step unless all wait for external input.
C19_NoDeadlock ==
    Running =>
      /\ m_pc # "idle" => ENABLED MainSteps
      /\ m_pc = "f_notify" =>
            xwebsocket_mutex = "main" /\ ENABLED FlushNotify
      /\ n_pc # "idle" =>
            \/ ENABLED CallbackSteps
            \/ n_pc = "cb_take" /\ pointer.mutex = "main"
      /\ pointer.mutex = "network" => ENABLED WriterLeaves
      /\ pointer.mutex = "main" => ENABLED ReaderLeaves
      /\ xwebsocket_mutex = "main" => ENABLED BroadcastLeaves
      /\ (m_pc = "idle" /\ pointer.mutex # "network") => ENABLED ReadTake
      /\ h_pc = "serve" =>
            xwebsocket_mutex = "free" \/ ENABLED BroadcastLeaves
      /\ h_pc = "served" => ENABLED HttpReturn
      /\ ~ AllWaitExternal =>
            ENABLED (MainSteps \/ CallbackSteps \/ ReadTake \/ QueueSend
                     \/ ServerTaskStart \/ ServerTaskClose
                     \/ ServerTaskEnd \/ QueueReceive \/ QueueReceiveNull
                     \/ HttpReturn \/ HttpServe(RegistryRequests))

\* A write has failed and its notification is about to be made with the
\* registry lock held, while the callback holds the pointer lock and the
\* handler waits with a connection to register.
C19_Witness ==
    /\ m_pc = "f_notify"
    /\ xwebsocket_mutex = "main"
    /\ pointer.mutex = "network"
    /\ h_pc = "serve"

\* The handler is at its xQueueReceive (line 355) and the acceptor has
\* not yet run xQueueCreate (line 329).
ReceiveBeforeCreate == h_pc = "receive" /\ ~ client_queue.created

\* The callback is at its xSemaphoreTake (line 231), or a read is inside
\* its critical section, and init has not yet run xSemaphoreCreateMutex
\* (line 103).
TakeBeforeCreate ==
    /\ pointer.mutex = "null"
    /\ n_pc = "cb_take" \/ m_pc \in { "rd_copy", "rd_give" }

\* C20: while the system runs, the handler is never about to receive
\* from a queue that was not created, no callback and no read is about
\* to take or holds a pointer mutex that was not created, and the board
\* never stops on the use of a NULL handle.
C20_CreatedBeforeUse ==
    /\ Running => ~ ReceiveBeforeCreate /\ ~ TakeBeforeCreate
    /\ sys # "abort"

\* The connect notification of the client in slot s has been delivered
\* (http_serve registered it and is about to return) and no frame was
\* written to the slot since.
ConnectDelivered(s) ==
    h_pc = "served" /\ s \in hs.opened /\ ~ hs.written

\* The broadcast in progress has written its frame to slot s.
FrameWritten(s) == InLoop /\ s \in fl.attempted \ fl.failed

\* While the invalidation of its connect is on record and no refresh is
\* in progress, the client is certain of a frame: it is written one,
\* unless it is closed or the board goes down first.
ServedWhenRecorded ==
    \A s \in Slots :
       (ConnectDelivered(s) /\ lv.inv /\ lv.pc = "loop")
          ~> (FrameWritten(s) \/ ~ clients[s] \/ sys # "run")

=============================================================================
